---- MODULE Spec2Model ----
(***************************************************************************)
(* Endpoint<T> and NamedEndpoint<T> of src/classes/Endpoint.ts: the        *)
(* resource cache, the name map, the listing snapshot and the asynchronous *)
(* calls get / resolve / fetch / list / listAll that read and write them.  *)
(*                                                                         *)
(* One instance is modelled; `kind` says of which class it is.  A call is  *)
(* a record in `calls`: started by the caller, suspended at each `await`   *)
(* on the transport, resumed when the transport settles.  JavaScript runs  *)
(* each synchronous stretch of a call to completion, so one action is one  *)
(* such stretch, and calls interleave only at their awaits.                *)
(***************************************************************************)
EXTENDS Integers, Sequences, FiniteSets, TLC

VARIABLES kind, cache, _nameMap, _list, calls

vars == <<kind, cache, _nameMap, _list, calls>>

----------------------------------------------------------------------------
(* Bounds of the model *)

\* ids the transport may return and the caller may ask for: 1..MaxId
MaxId == 2
\* calls made on the instance in one behaviour
MaxCalls == 2
\* the remote listing holds 0..MaxCount items
MaxCount == 2
\* list(limit, offset) is called with limit, offset in 0..MaxLimit
MaxLimit == 2

Ids == 1 .. MaxId
CallIds == 1 .. MaxCalls

----------------------------------------------------------------------------
(* JavaScript values *)

\* `undefined` where an object is expected (a cache miss, an unset field)
Undefined == [undefined |-> TRUE]
\* `undefined` where a number is expected (a name map miss); ids are positive
NoId == 0
\* `undefined` where a string is expected (data.name of a nameless resource)
NoName == <<"undefined">>
\* JSON null (cursor of a listing)
Null == [null |-> TRUE]

\* a string is the sequence of its characters; the names in use
Names == {<<"a">>, <<"A">>, <<"b", "B">>}

toLowerCaseChar(ch) ==
    CASE ch = "A" -> "a"
      [] ch = "B" -> "b"
      [] OTHER -> ch

toUpperCaseChar(ch) ==
    CASE ch = "a" -> "A"
      [] ch = "b" -> "B"
      [] OTHER -> ch

\* String.prototype.toLowerCase
toLowerCase(s) == [i \in 1 .. Len(s) |-> toLowerCaseChar(s[i])]

\* String.prototype.toUpperCase
toUpperCase(s) == [i \in 1 .. Len(s) |-> toUpperCaseChar(s[i])]

\* EndpointParam (a number) and NamedEndpointParam (a number or a string)
Num(i) == [num |-> i]
Str(s) == [str |-> s]
IsNumber(param) == "num" \in DOMAIN param

EndpointParam == {Num(i) : i \in Ids}
NamedEndpointParam == EndpointParam \cup {Str(s) : s \in Names}

\* the params a caller can pass to an instance of this kind
Params == IF kind = "NamedEndpoint" THEN NamedEndpointParam ELSE EndpointParam

\* a decoded resource: an id, and a name or none
Resources == [id : Ids, name : Names \cup {NoName}]

\* how a transport call can fail (the request, or res.json())
Errors == {"TransportFailure", "DecodeFailure"}

Min(a, b) == IF a < b THEN a ELSE b
Max(a, b) == IF a > b THEN a ELSE b

----------------------------------------------------------------------------
(* Map / Collection *)

\* Collection.set / Map.set
MapSet(m, k, v) == [x \in (DOMAIN m) \cup {k} |-> IF x = k THEN v ELSE m[x]]
\* Collection<number, T>.get: the value, or undefined
CollectionGet(m, k) == IF k \in DOMAIN m THEN m[k] ELSE Undefined
\* Map<string, number>.get: the id, or undefined
MapGet(m, k) == IF k \in DOMAIN m THEN m[k] ELSE NoId

----------------------------------------------------------------------------
(* Requests and the remote API *)

Digits == <<"0", "1", "2", "3", "4", "5", "6", "7", "8", "9">>

\* `${n}` of a non-negative integer: its decimal digits
RECURSIVE toString(_)
toString(n) ==
    IF n < 10 THEN <<Digits[n + 1]>>
              ELSE toString(n \div 10) \o <<Digits[(n % 10) + 1]>>

\* GET {BASE_URI}/{resource}/{param}
ResourceRequest(param) == [path |-> param]

\* the list request with limit and offset exchanged
ListRequest_swapped(limit, offset) ==
    [query |-> [limit |-> toString(offset), offset |-> toString(limit)]]

\* GET {BASE_URI}/{resource}?{params}, params = URLSearchParams({limit, offset})
ListRequest(limit, offset) ==
    [query |-> [limit |-> toString(limit), offset |-> toString(offset)]]

\* GET {BASE_URI}/{resource}?limit={limit}
LimitRequest(limit) == [query |-> [limit |-> toString(limit)]]

\* the remote API reads a query parameter back as a number
DigitValue(d) == CHOOSE n \in 0 .. 9 : Digits[n + 1] = d
RECURSIVE parseInt(_)
parseInt(s) ==
    IF Len(s) = 1 THEN DigitValue(s[1])
                  ELSE 10 * parseInt(SubSeq(s, 1, Len(s) - 1)) + DigitValue(s[Len(s)])

\* the page the remote API serves for limit and offset when the category holds
\* `total` resources; the i-th resource of the category is written i
ServerPage(total, limit, offset) ==
    LET n == Max(0, Min(limit, total - offset))
    IN  [count |-> total,
         next |-> IF offset + limit < total
                      THEN [limit |-> limit, offset |-> offset + limit]
                      ELSE Null,
         previous |-> IF offset > 0
                          THEN [limit |-> limit, offset |-> Max(0, offset - limit)]
                          ELSE Null,
         results |-> [i \in 1 .. n |-> offset + i]]

\* what res.json() can yield for a request
Responses(req) ==
    IF "path" \in DOMAIN req
        THEN Resources
        ELSE {ServerPage(total, parseInt(req.query.limit),
                         IF "offset" \in DOMAIN req.query
                             THEN parseInt(req.query.offset) ELSE 0) :
                  total \in 0 .. MaxCount}

----------------------------------------------------------------------------
(* Calls *)

\* A call: op and args as the caller gave them; pc, where it stands; reqs, the
\* transport requests it has issued; resps, how the transport settled them
\* ([ok |-> data] or [error |-> e]); value or err, what it returned or threw.
Idle ==
    [op |-> "none", args |-> << >>, pc |-> "idle", reqs |-> <<>>, resps |-> <<>>,
     value |-> Undefined, err |-> "none"]

Started == {c \in CallIds : calls[c].pc # "idle"}

\* the next call takes the next call id
CanStart(c) == c \in CallIds /\ c = Cardinality(Started) + 1

\* a call that returned `value` without suspending
Returned(op, args, value) ==
    [op |-> op, args |-> args, pc |-> "done", reqs |-> <<>>, resps |-> <<>>,
     value |-> value, err |-> "none"]

\* a call suspended at its first await, on the request it has just issued
Awaiting(op, args, req) ==
    [op |-> op, args |-> args, pc |-> "await", reqs |-> <<req>>, resps |-> <<>>,
     value |-> Undefined, err |-> "none"]

\* the request the suspended call awaits
Pending(c) == calls[c].reqs[Len(calls[c].reqs)]

\* what fetch(url).then(res => res.json()) can fulfil the awaited request with
ResponsesFor(c) ==
    IF calls[c].pc \in {"await", "await2"} THEN Responses(Pending(c)) ELSE {}

\* the awaited request is fulfilled with data
Fulfil(call, data) == [call EXCEPT !.resps = Append(@, [ok |-> data])]

\* the awaited request is rejected with e
Reject(call, e) == [call EXCEPT !.resps = Append(@, [error |-> e])]

\* how the transport settled the last request of the call
Last(call) == call.resps[Len(call.resps)]

----------------------------------------------------------------------------
(* get / resolve / fetch *)

\* Endpoint.get
Endpoint_get(param) == CollectionGet(cache, param.num)

\* NamedEndpoint.get that looks the name up as given
NamedEndpoint_get_case_sensitive(param) ==
    CollectionGet(cache, IF IsNumber(param) THEN param.num
                                            ELSE MapGet(_nameMap, param.str))

\* NamedEndpoint.get
NamedEndpoint_get(param) ==
    CollectionGet(cache, IF IsNumber(param)
                             THEN param.num
                             ELSE MapGet(_nameMap, toLowerCase(param.str)))

\* this.get
get(param) ==
    IF kind = "NamedEndpoint" THEN NamedEndpoint_get(param) ELSE Endpoint_get(param)

\* the request of Endpoint.fetch
Endpoint_fetchRequest(param) == ResourceRequest(param)

\* the request of a NamedEndpoint.fetch that embeds the name as given
NamedEndpoint_fetchRequest_as_given(param) == ResourceRequest(param)

\* the request of NamedEndpoint.fetch
NamedEndpoint_fetchRequest(param) ==
    ResourceRequest(IF IsNumber(param) THEN param ELSE Str(toLowerCase(param.str)))

\* the request of this.fetch
fetchRequest(param) ==
    IF kind = "NamedEndpoint" THEN NamedEndpoint_fetchRequest(param)
                              ELSE Endpoint_fetchRequest(param)

\* Endpoint._cache that stores nothing
Endpoint_cache_skipped(data) == [cache |-> cache, nameMap |-> _nameMap]

\* Endpoint._cache: the cache and the name map after it
Endpoint_cache(data) ==
    [cache |-> MapSet(cache, data.id, data), nameMap |-> _nameMap]

\* NamedEndpoint._cache
NamedEndpoint_cache(data) ==
    [cache |-> MapSet(cache, data.id, data),
     nameMap |-> MapSet(_nameMap, data.name, data.id)]

\* this._cache
_cache(data) ==
    IF kind = "NamedEndpoint" THEN NamedEndpoint_cache(data) ELSE Endpoint_cache(data)

\* get(param): a synchronous lookup
Get(c, param) ==
    /\ CanStart(c)
    /\ calls' = [calls EXCEPT ![c] = Returned("get", [param |-> param], get(param))]
    /\ UNCHANGED <<kind, cache, _nameMap, _list>>

\* fetch(param, cache): issues the request and suspends
Fetch(c, param, flag) ==
    /\ CanStart(c)
    /\ calls' = [calls EXCEPT ![c] =
           Awaiting("fetch", [param |-> param, cache |-> flag], fetchRequest(param))]
    /\ UNCHANGED <<kind, cache, _nameMap, _list>>

\* resolve(param) that fetches whatever the cache holds
Resolve_always_fetch(c, param) ==
    /\ CanStart(c)
    /\ calls' = [calls EXCEPT ![c] =
           Awaiting("resolve", [param |-> param], fetchRequest(param))]
    /\ UNCHANGED <<kind, cache, _nameMap, _list>>

\* resolve(param): this.get(param) || this.fetch(param)
Resolve(c, param) ==
    /\ CanStart(c)
    /\ calls' = [calls EXCEPT ![c] =
           IF get(param) # Undefined
               THEN Returned("resolve", [param |-> param], get(param))
               ELSE Awaiting("resolve", [param |-> param], fetchRequest(param))]
    /\ UNCHANGED <<kind, cache, _nameMap, _list>>

\* fetch that caches data only if its id is not in the cache yet
FetchResume_first_wins(c, data) ==
    /\ calls[c].op \in {"fetch", "resolve"}
    /\ calls[c].pc = "await"
    /\ data \in ResponsesFor(c)
    /\ cache' = IF data.id \in DOMAIN cache THEN cache ELSE _cache(data).cache
    /\ _nameMap' = IF data.id \in DOMAIN cache THEN _nameMap ELSE _cache(data).nameMap
    /\ calls' = [calls EXCEPT ![c] = [Fulfil(@, data) EXCEPT !.pc = "done", !.value = data]]
    /\ UNCHANGED <<kind, _list>>

\* fetch that caches data only if its `cache` argument is true
FetchResume_honours_flag(c, data) ==
    /\ calls[c].op \in {"fetch", "resolve"}
    /\ calls[c].pc = "await"
    /\ data \in ResponsesFor(c)
    /\ LET skip == calls[c].op = "fetch" /\ ~calls[c].args.cache
       IN  /\ cache' = IF skip THEN cache ELSE _cache(data).cache
           /\ _nameMap' = IF skip THEN _nameMap ELSE _cache(data).nameMap
    /\ calls' = [calls EXCEPT ![c] = [Fulfil(@, data) EXCEPT !.pc = "done", !.value = data]]
    /\ UNCHANGED <<kind, _list>>

\* the transport call of fetch fulfils: this._cache(data); return data
FetchResume(c, data) ==
    /\ calls[c].op \in {"fetch", "resolve"}
    /\ calls[c].pc = "await"
    /\ data \in ResponsesFor(c)
    /\ cache' = _cache(data).cache
    /\ _nameMap' = _cache(data).nameMap
    /\ calls' = [calls EXCEPT ![c] = [Fulfil(@, data) EXCEPT !.pc = "done", !.value = data]]
    /\ UNCHANGED <<kind, _list>>

\* fetch that catches the rejection and returns undefined
FetchFail_swallowed(c, e) ==
    /\ calls[c].op \in {"fetch", "resolve"}
    /\ calls[c].pc = "await"
    /\ calls' = [calls EXCEPT ![c] = [Reject(@, e) EXCEPT !.pc = "done"]]
    /\ UNCHANGED <<kind, cache, _nameMap, _list>>

\* the transport call of fetch rejects: the await throws, and so do fetch and resolve
FetchFail(c, e) ==
    /\ calls[c].op \in {"fetch", "resolve"}
    /\ calls[c].pc = "await"
    /\ calls' = [calls EXCEPT ![c] = [Reject(@, e) EXCEPT !.pc = "failed", !.err = e]]
    /\ UNCHANGED <<kind, cache, _nameMap, _list>>

----------------------------------------------------------------------------
(* list / listAll *)

\* a slice of `end` elements from `start`
Slice_by_length(arr, start, end) == SubSeq(arr, start + 1, Min(start + end, Len(arr)))

\* Array.prototype.slice(start, end) on a sequence whose first index is 0
Slice(arr, start, end) ==
    LET len == Len(arr)
        from == IF start < 0 THEN Max(len + start, 0) ELSE Min(start, len)
        to == IF end < 0 THEN Max(len + end, 0) ELSE Min(end, len)
    IN  SubSeq(arr, from + 1, to)

\* new ApiResourceList<T>(data, this) / new NamedApiResourceList<T>(data, this)
ApiResourceList(data) ==
    [count |-> data.count, next |-> data.next, previous |-> data.previous,
     results |-> data.results]

\* the page list() derives from the snapshot
SnapshotPage(limit, offset) ==
    ApiResourceList([count |-> _list.count, next |-> _list.next,
                     previous |-> _list.previous,
                     results |-> Slice(_list.results, offset, limit)])

\* list(limit, offset): a page of the snapshot, or a request and a suspension
List(c, limit, offset) ==
    /\ CanStart(c)
    /\ calls' = [calls EXCEPT ![c] =
           IF _list # Undefined
               THEN Returned("list", [limit |-> limit, offset |-> offset],
                             SnapshotPage(limit, offset))
               ELSE Awaiting("list", [limit |-> limit, offset |-> offset],
                             ListRequest(limit, offset))]
    /\ UNCHANGED <<kind, cache, _nameMap, _list>>

\* the transport call of list fulfils: the decoded page is wrapped and returned
ListResume(c, data) ==
    /\ calls[c].op = "list"
    /\ calls[c].pc = "await"
    /\ data \in ResponsesFor(c)
    /\ calls' = [calls EXCEPT ![c] =
           [Fulfil(@, data) EXCEPT !.pc = "done", !.value = ApiResourceList(data)]]
    /\ UNCHANGED <<kind, cache, _nameMap, _list>>

\* the transport call of list rejects: the await throws
ListFail(c, e) ==
    /\ calls[c].op = "list"
    /\ calls[c].pc = "await"
    /\ calls' = [calls EXCEPT ![c] = [Reject(@, e) EXCEPT !.pc = "failed", !.err = e]]
    /\ UNCHANGED <<kind, cache, _nameMap, _list>>

\* listAll(cache) that does not look for a snapshot
ListAll_no_reuse(c, flag) ==
    /\ CanStart(c)
    /\ calls' = [calls EXCEPT ![c] =
           Awaiting("listAll", [cache |-> flag], LimitRequest(1))]
    /\ UNCHANGED <<kind, cache, _nameMap, _list>>

\* listAll(cache): the snapshot, or the first request (limit=1) and a suspension
ListAll(c, flag) ==
    /\ CanStart(c)
    /\ calls' = [calls EXCEPT ![c] =
           IF _list # Undefined
               THEN Returned("listAll", [cache |-> flag], _list)
               ELSE Awaiting("listAll", [cache |-> flag], LimitRequest(1))]
    /\ UNCHANGED <<kind, cache, _nameMap, _list>>

\* listAll that asks for one item again in its second request
ListAllCount_limit_one(c, data) ==
    /\ calls[c].op = "listAll"
    /\ calls[c].pc = "await"
    /\ data \in ResponsesFor(c)
    /\ calls' = [calls EXCEPT ![c] =
           [Fulfil(@, data) EXCEPT !.pc = "await2",
                                   !.reqs = Append(@, LimitRequest(1))]]
    /\ UNCHANGED <<kind, cache, _nameMap, _list>>

\* the first transport call of listAll fulfils: { count } is read and the second
\* request (limit=count) is issued
ListAllCount(c, data) ==
    /\ calls[c].op = "listAll"
    /\ calls[c].pc = "await"
    /\ data \in ResponsesFor(c)
    /\ calls' = [calls EXCEPT ![c] =
           [Fulfil(@, data) EXCEPT !.pc = "await2",
                                   !.reqs = Append(@, LimitRequest(data.count))]]
    /\ UNCHANGED <<kind, cache, _nameMap, _list>>

\* listAll that stores the list whatever `cache` is
ListAllResume_always_store(c, data) ==
    /\ calls[c].op = "listAll"
    /\ calls[c].pc = "await2"
    /\ data \in ResponsesFor(c)
    /\ _list' = ApiResourceList(data)
    /\ calls' = [calls EXCEPT ![c] =
           [Fulfil(@, data) EXCEPT !.pc = "done", !.value = ApiResourceList(data)]]
    /\ UNCHANGED <<kind, cache, _nameMap>>

\* the second transport call of listAll fulfils: the list is built, stored if
\* `cache`, and returned
ListAllResume(c, data) ==
    /\ calls[c].op = "listAll"
    /\ calls[c].pc = "await2"
    /\ data \in ResponsesFor(c)
    /\ _list' = IF calls[c].args.cache THEN ApiResourceList(data) ELSE _list
    /\ calls' = [calls EXCEPT ![c] =
           [Fulfil(@, data) EXCEPT !.pc = "done", !.value = ApiResourceList(data)]]
    /\ UNCHANGED <<kind, cache, _nameMap>>

\* listAll that, when its second transport call rejects, keeps the page of the
\* first response as the snapshot
ListAllFail_partial(c, e) ==
    /\ calls[c].op = "listAll"
    /\ calls[c].pc \in {"await", "await2"}
    /\ _list' = IF calls[c].pc = "await2" /\ calls[c].args.cache
                    THEN ApiResourceList(Last(calls[c]).ok)
                    ELSE _list
    /\ calls' = [calls EXCEPT ![c] = [Reject(@, e) EXCEPT !.pc = "failed", !.err = e]]
    /\ UNCHANGED <<kind, cache, _nameMap>>

\* either transport call of listAll rejects: the await throws
ListAllFail(c, e) ==
    /\ calls[c].op = "listAll"
    /\ calls[c].pc \in {"await", "await2"}
    /\ calls' = [calls EXCEPT ![c] = [Reject(@, e) EXCEPT !.pc = "failed", !.err = e]]
    /\ UNCHANGED <<kind, cache, _nameMap, _list>>

----------------------------------------------------------------------------
(* The instance after construction, and its steps *)

Init ==
    /\ kind \in {"Endpoint", "NamedEndpoint"}
    /\ cache = << >>
    /\ _nameMap = << >>
    /\ _list = Undefined
    /\ calls = [c \in CallIds |-> Idle]

Next ==
    \/ \E c \in CallIds, param \in Params : Get(c, param)
    \/ \E c \in CallIds, param \in Params : Resolve(c, param)
    \/ \E c \in CallIds, param \in Params, flag \in BOOLEAN : Fetch(c, param, flag)
    \/ \E c \in CallIds, limit \in 0 .. MaxLimit, offset \in 0 .. MaxLimit :
           List(c, limit, offset)
    \/ \E c \in CallIds, flag \in BOOLEAN : ListAll(c, flag)
    \/ \E c \in CallIds : \E data \in ResponsesFor(c) : FetchResume(c, data)
    \/ \E c \in CallIds, e \in Errors : FetchFail(c, e)
    \/ \E c \in CallIds : \E data \in ResponsesFor(c) : ListResume(c, data)
    \/ \E c \in CallIds, e \in Errors : ListFail(c, e)
    \/ \E c \in CallIds : \E data \in ResponsesFor(c) : ListAllCount(c, data)
    \/ \E c \in CallIds : \E data \in ResponsesFor(c) : ListAllResume(c, data)
    \/ \E c \in CallIds, e \in Errors : ListAllFail(c, e)

Spec == Init /\ [][Next]_vars

----------------------------------------------------------------------------
(* Steps of calls, as the properties below name them *)

\* this step is the start of call c, as operation op
Starts(c, op) == calls[c].pc = "idle" /\ calls'[c].pc # "idle" /\ calls'[c].op = op

\* this step resumes the suspended call c
Resumes(c) == calls[c].pc \in {"await", "await2"} /\ calls'[c] # calls[c]

\* the number of transport requests on the instance so far
RECURSIVE Requests(_)
Requests(n) == IF n = 0 THEN 0 ELSE Len(calls[n].reqs) + Requests(n - 1)

----------------------------------------------------------------------------
(* C1 *)

\* C1: when a fetch(id) resumes with a resource of the transport whose id field
\* is id, fetch returns that resource and get(id) then yields a value equal to
\* the one fetch returned; a get returns the cached value in the step it is
\* called in and issues no transport request.  On both classes.
C1_CacheRoundTrip ==
    [][\A c \in CallIds :
          /\ ( /\ calls[c].op = "fetch"
               /\ Resumes(c)
               /\ calls'[c].pc = "done"
               /\ IsNumber(calls[c].args.param)
               /\ Last(calls'[c]).ok.id = calls[c].args.param.num )
             => /\ calls'[c].value = Last(calls'[c]).ok
                /\ get(calls[c].args.param)' = calls'[c].value
          /\ Starts(c, "get")
             => /\ calls'[c].pc = "done"
                /\ calls'[c].value = get(calls'[c].args.param)
                /\ calls'[c].reqs = <<>>
                /\ Requests(MaxCalls)' = Requests(MaxCalls)
      ]_vars

\* a fetch(id) has returned the resource of that id, and the get(id) called next
\* has returned an equal value without a request
C1_Witness ==
    \E c \in CallIds, d \in CallIds :
        /\ d = c + 1
        /\ kind = "NamedEndpoint"
        /\ calls[c].op = "fetch" /\ calls[c].pc = "done"
        /\ IsNumber(calls[c].args.param)
        /\ calls[c].value.id = calls[c].args.param.num
        /\ calls[d].op = "get" /\ calls[d].pc = "done"
        /\ calls[d].args.param = calls[c].args.param
        /\ calls[d].value = calls[c].value
        /\ calls[d].reqs = <<>>

----------------------------------------------------------------------------
(* C2 *)

\* C2: a resolve(id) called while id is in the cache returns the cached value in
\* that step and issues no transport request; a resolve issues a request only
\* if id is not in the cache when it is called, and then exactly one, at the
\* call, and none when it resumes.
C2_NoRedundantFetch ==
    [][\A c \in CallIds :
          /\ (Starts(c, "resolve") /\ IsNumber(calls'[c].args.param))
             => LET id == calls'[c].args.param.num
                IN  IF id \in DOMAIN cache
                        THEN /\ calls'[c].pc = "done"
                             /\ calls'[c].value = cache[id]
                             /\ calls'[c].reqs = <<>>
                             /\ Requests(MaxCalls)' = Requests(MaxCalls)
                        ELSE /\ Len(calls'[c].reqs) = 1
                             /\ Requests(MaxCalls)' = Requests(MaxCalls) + 1
          /\ (calls[c].op = "resolve" /\ Resumes(c))
             => /\ calls'[c].reqs = calls[c].reqs
                /\ Requests(MaxCalls)' = Requests(MaxCalls)
      ]_vars

\* a resolve(id) has been called with id in the cache and has returned it
C2_Witness ==
    \E c \in CallIds :
        /\ calls[c].op = "resolve" /\ calls[c].pc = "done"
        /\ calls[c].reqs = <<>>
        /\ IsNumber(calls[c].args.param)
        /\ calls[c].args.param.num \in DOMAIN cache
        /\ calls[c].value = cache[calls[c].args.param.num]

----------------------------------------------------------------------------
(* C3 *)

\* the resources that fetch and resolve calls have returned so far
Fetched ==
    {calls[c].value : c \in {d \in CallIds : /\ calls[d].op \in {"fetch", "resolve"}
                                             /\ calls[d].pc = "done"}}

\* no resource fetched so far has this name, whatever the letter case
NeverFetched(name) ==
    \A r \in Fetched : toLowerCase(r.name) # toLowerCase(name)

\* C3: on a NamedEndpoint, when fetch(R.id) has returned a resource R that has a
\* name, in any letter case, get(R.name) and get(uppercase(R.name)) both return
\* a value equal to R, and get of a name that was never fetched returns absent.
C3_NameIdEquivalence ==
    [][\A c \in CallIds, R \in Resources :
          ( /\ kind = "NamedEndpoint"
            /\ calls[c].op = "fetch"
            /\ Resumes(c)
            /\ calls'[c].pc = "done"
            /\ calls'[c].value = R
            /\ calls[c].args.param = Num(R.id)
            /\ R.name # NoName )
          => /\ get(Str(R.name))' = R
             /\ get(Str(toUpperCase(R.name)))' = R
             /\ \A name \in Names :
                    NeverFetched(name)' => get(Str(name))' = Undefined
      ]_vars

----------------------------------------------------------------------------
(* C4 *)

\* C4: in every reachable state of a NamedEndpoint, every cached resource r that
\* has a name has an entry in the name map under its lower-cased name, and that
\* entry is r.id.
C4_NameIndexLockstep ==
    kind = "NamedEndpoint" =>
        \A id \in DOMAIN cache :
            cache[id].name # NoName =>
                /\ toLowerCase(cache[id].name) \in DOMAIN _nameMap
                /\ _nameMap[toLowerCase(cache[id].name)] = cache[id].id

----------------------------------------------------------------------------
(* C5 *)

\* c and d are the only listAll calls made so far
OnlyListAlls(c, d) ==
    \A e \in CallIds \ {c, d} : calls[e].op # "listAll"

\* C5: when a listAll() that started without a snapshot has completed and a
\* second listAll() is then called (no other listAll being made), the two calls
\* issue two transport requests in total, both by the first, and the second
\* returns, in the step it is called in, the snapshot the first returned.
C5_SequentialSnapshotReuse ==
    [][\A c \in CallIds, d \in CallIds :
          ( /\ calls[c].op = "listAll"
            /\ calls[c].pc = "done"
            /\ calls[c].args.cache
            /\ calls[c].reqs # <<>>
            /\ OnlyListAlls(c, d)
            /\ Starts(d, "listAll") )
          => /\ Len(calls[c].reqs) = 2
             /\ calls'[d].pc = "done"
             /\ calls'[d].reqs = <<>>
             /\ calls'[d].value = calls[c].value
             /\ Len(calls'[c].reqs) + Len(calls'[d].reqs) = 2
             /\ Requests(MaxCalls)' = Requests(MaxCalls)
      ]_vars

\* two listAll() calls, one after the other: the first made two requests and
\* stored the snapshot, the second returned it without a request
C5_Witness ==
    \E c \in CallIds, d \in CallIds :
        /\ d = c + 1
        /\ calls[c].op = "listAll" /\ calls[c].pc = "done" /\ calls[c].args.cache
        /\ Len(calls[c].reqs) = 2
        /\ calls[d].op = "listAll" /\ calls[d].pc = "done"
        /\ calls[d].reqs = <<>>
        /\ calls[d].value = calls[c].value
        /\ calls[d].value = _list
        /\ Len(_list.results) > 0

----------------------------------------------------------------------------
(* C6 *)

\* C6: once the listing snapshot has been set, no step changes it.
C6_SnapshotWriteOnce ==
    [][_list # Undefined => _list' = _list]_vars

----------------------------------------------------------------------------
(* C7 *)

----------------------------------------------------------------------------
(* C8 *)

\* C8: a list(limit, offset) called while no snapshot is stored issues one
\* transport request, whose query is the caller's limit and offset, and
\* suspends; when it resumes it issues no further request, returns the page the
\* transport delivered, and no step of the call sets the snapshot.
C8_ListWithoutSnapshot ==
    [][\A c \in CallIds :
          /\ (Starts(c, "list") /\ _list = Undefined)
             => /\ calls'[c].pc = "await"
                /\ calls'[c].reqs =
                       <<[query |-> [limit |-> toString(calls'[c].args.limit),
                                     offset |-> toString(calls'[c].args.offset)]]>>
                /\ Requests(MaxCalls)' = Requests(MaxCalls) + 1
                /\ _list' = _list
          /\ (calls[c].op = "list" /\ Resumes(c))
             => /\ calls'[c].reqs = calls[c].reqs
                /\ Requests(MaxCalls)' = Requests(MaxCalls)
                /\ _list' = _list
                /\ "ok" \in DOMAIN Last(calls'[c])
                   => /\ calls'[c].pc = "done"
                      /\ calls'[c].value.count = Last(calls'[c]).ok.count
                      /\ calls'[c].value.next = Last(calls'[c]).ok.next
                      /\ calls'[c].value.previous = Last(calls'[c]).ok.previous
                      /\ calls'[c].value.results = Last(calls'[c]).ok.results
      ]_vars

\* a list(limit, offset) with limit # offset called without a snapshot has
\* returned a non-empty page of the transport, and there is still no snapshot
C8_Witness ==
    \E c \in CallIds :
        /\ calls[c].op = "list" /\ calls[c].pc = "done"
        /\ Len(calls[c].reqs) = 1
        /\ calls[c].args.limit # calls[c].args.offset
        /\ calls[c].value.results # <<>>
        /\ calls[c].value.results = Last(calls[c]).ok.results
        /\ _list = Undefined

----------------------------------------------------------------------------
(* C9 *)

\* the key get looks the param up by is not there
KeyAbsent(param) ==
    IF IsNumber(param)
        THEN param.num \notin DOMAIN cache
        ELSE toLowerCase(param.str) \notin DOMAIN _nameMap

\* C9: a get, in any state and for any id (or name, on a NamedEndpoint), returns
\* in the step it is called in, never fails, issues no transport request, leaves
\* the cache, the name map, the snapshot and every other call as they were, and
\* returns absent exactly when the id is not in the cache (for a name: when the
\* lower-cased name is not in the name map).
C9_GetIsPureLookup ==
    [][/\ \A c \in CallIds :
              Starts(c, "get")
              => /\ calls'[c].pc = "done"
                 /\ calls'[c].err = "none"
                 /\ calls'[c].reqs = <<>>
                 /\ Requests(MaxCalls)' = Requests(MaxCalls)
                 /\ cache' = cache
                 /\ _nameMap' = _nameMap
                 /\ _list' = _list
                 /\ \A d \in CallIds \ {c} : calls'[d] = calls[d]
                 /\ calls'[c].value = Undefined <=> KeyAbsent(calls'[c].args.param)
       /\ \A param \in Params : (get(param) = Undefined <=> KeyAbsent(param))'
      ]_vars

\* a get by a name in upper case has returned the cached resource of that name
C9_Witness ==
    \E c \in CallIds :
        /\ calls[c].op = "get" /\ calls[c].pc = "done"
        /\ ~IsNumber(calls[c].args.param)
        /\ calls[c].args.param.str # toLowerCase(calls[c].args.param.str)
        /\ calls[c].value # Undefined
        /\ calls[c].value = cache[_nameMap[toLowerCase(calls[c].args.param.str)]]

----------------------------------------------------------------------------
(* C10 *)

\* C10: when the transport call of a fetch(p), or of a resolve(p) that missed
\* the cache, fails, the call fails with that failure and returns no value; the
\* cache and the name map are the same after the step as before it, and get(p)
\* is absent afterwards if it was absent before.
C10_FetchFailure ==
    [][\A c \in CallIds, param \in Params :
          ( /\ calls[c].op \in {"fetch", "resolve"}
            /\ calls[c].args.param = param
            /\ Resumes(c)
            /\ "error" \in DOMAIN Last(calls'[c]) )
          => /\ calls'[c].pc = "failed"
             /\ calls'[c].err = Last(calls'[c]).error
             /\ calls'[c].value = Undefined
             /\ cache' = cache
             /\ _nameMap' = _nameMap
             /\ get(param) = Undefined => get(param)' = Undefined
      ]_vars

\* a resolve(p) that missed the cache has failed with the failure of its
\* transport call, and p is still absent
C10_Witness ==
    \E c \in CallIds :
        /\ calls[c].op = "resolve" /\ calls[c].pc = "failed"
        /\ calls[c].err \in Errors
        /\ calls[c].err = Last(calls[c]).error
        /\ calls[c].value = Undefined
        /\ get(calls[c].args.param) = Undefined

----------------------------------------------------------------------------
(* C11 *)

\* a listAll(true) other than c has completed its two transport calls
StoredByOther(c) ==
    \E d \in CallIds \ {c} :
        /\ calls[d].op = "listAll" /\ calls[d].pc = "done"
        /\ calls[d].reqs # <<>> /\ calls[d].args.cache

\* C11: when the first or the second transport call of a listAll fails, the
\* listAll fails with that failure, returns no value and issues no further
\* request; the step leaves the snapshot field as it was, and the instance is
\* without a snapshot afterwards unless another listAll(true) has completed; a
\* listAll called after the failure while there is no snapshot issues the
\* limit=1 request first.
C11_ListAllFailure ==
    [][\A c \in CallIds :
          /\ ( /\ calls[c].op = "listAll"
               /\ Resumes(c)
               /\ "error" \in DOMAIN Last(calls'[c]) )
             => /\ calls'[c].pc = "failed"
                /\ calls'[c].err = Last(calls'[c]).error
                /\ calls'[c].value = Undefined
                /\ calls'[c].reqs = calls[c].reqs
                /\ _list' = _list
                /\ ~StoredByOther(c) => _list' = Undefined
          /\ \A d \in CallIds :
                ( /\ calls[c].op = "listAll" /\ calls[c].pc = "failed"
                  /\ _list = Undefined
                  /\ Starts(d, "listAll") )
                => /\ calls'[d].pc = "await"
                   /\ calls'[d].reqs = <<[query |-> [limit |-> <<"1">>]]>>
      ]_vars

\* a listAll(true) has failed at its second transport call, there is no
\* snapshot, and the listAll called next has issued the limit=1 request
C11_Witness ==
    \E c \in CallIds, d \in CallIds :
        /\ d = c + 1
        /\ calls[c].op = "listAll" /\ calls[c].pc = "failed" /\ calls[c].args.cache
        /\ Len(calls[c].reqs) = 2
        /\ calls[c].err = Last(calls[c]).error
        /\ _list = Undefined
        /\ calls[d].op = "listAll" /\ calls[d].pc = "await"
        /\ calls[d].reqs = <<LimitRequest(1)>>

----------------------------------------------------------------------------
(* C12 *)

\* C12: on a NamedEndpoint, a fetch(p) of a name p in any letter case issues one
\* transport request, addressed to lowercase(p), and a fetch of a number one
\* addressed to that number; when the fetch of p resumes with the resource of
\* that name, the name map holds the key lowercase(p), mapped to the id of the
\* resource returned.
C12_NameNormalizationOnFetch ==
    [][\A c \in CallIds :
          /\ (Starts(c, "fetch") /\ kind = "NamedEndpoint")
             => /\ calls'[c].reqs =
                       <<[path |-> IF IsNumber(calls'[c].args.param)
                                       THEN calls'[c].args.param
                                       ELSE Str(toLowerCase(calls'[c].args.param.str))]>>
                /\ Requests(MaxCalls)' = Requests(MaxCalls) + 1
          /\ \A p \in Names :
                ( /\ kind = "NamedEndpoint"
                  /\ calls[c].op = "fetch"
                  /\ calls[c].args.param = Str(p)
                  /\ Resumes(c)
                  /\ calls'[c].pc = "done"
                  /\ toLowerCase(calls'[c].value.name) = toLowerCase(p) )
                => /\ calls'[c].reqs = calls[c].reqs
                   /\ toLowerCase(p) \in DOMAIN _nameMap'
                   /\ _nameMap'[toLowerCase(p)] = calls'[c].value.id
      ]_vars

----------------------------------------------------------------------------
(* C13 *)

\* C13: on a NamedEndpoint, when a fetch resumes with a resource that has no
\* name, the resource is in the cache under its id afterwards and the name map
\* is the same after the step as before it.
C13_NamelessResource ==
    [][\A c \in CallIds :
          ( /\ kind = "NamedEndpoint"
            /\ calls[c].op \in {"fetch", "resolve"}
            /\ Resumes(c)
            /\ calls'[c].pc = "done"
            /\ calls'[c].value.name = NoName )
          => /\ calls'[c].value.id \in DOMAIN cache'
             /\ cache'[calls'[c].value.id] = calls'[c].value
             /\ _nameMap' = _nameMap
      ]_vars

----------------------------------------------------------------------------
(* C14 *)

\* C14: in every step of get, resolve, fetch, list and listAll calls, however
\* interleaved, every id in the cache stays in the cache and keeps the value it
\* has, also when a fetch resumes with other data for an id already cached.
C14_CacheMonotonicity ==
    [][\A id \in DOMAIN cache :
          /\ id \in DOMAIN cache'
          /\ cache'[id] = cache[id]
      ]_vars

----------------------------------------------------------------------------
(* C15 *)

\* C15: a listAll called while no snapshot is stored issues the request with
\* limit=1 and suspends; in the step where the first response arrives, and not
\* before, it issues its second request, whose limit is the count of that
\* response; when the second response arrives it issues no further request, so
\* two in all, and returns the listing of the second response.
C15_ListAllTwoCalls ==
    [][\A c \in CallIds :
          /\ (Starts(c, "listAll") /\ _list = Undefined)
             => /\ calls'[c].pc = "await"
                /\ calls'[c].reqs = <<[query |-> [limit |-> <<"1">>]]>>
                /\ Requests(MaxCalls)' = Requests(MaxCalls) + 1
          /\ ( /\ calls[c].op = "listAll" /\ calls[c].pc = "await"
               /\ Resumes(c)
               /\ "ok" \in DOMAIN Last(calls'[c]) )
             => /\ Len(calls[c].reqs) = 1
                /\ calls'[c].pc = "await2"
                /\ calls'[c].reqs =
                       Append(calls[c].reqs,
                              [query |-> [limit |-> toString(Last(calls'[c]).ok.count)]])
                /\ Requests(MaxCalls)' = Requests(MaxCalls) + 1
          /\ ( /\ calls[c].op = "listAll" /\ calls[c].pc = "await2"
               /\ Resumes(c)
               /\ "ok" \in DOMAIN Last(calls'[c]) )
             => /\ calls'[c].pc = "done"
                /\ calls'[c].reqs = calls[c].reqs
                /\ Len(calls'[c].reqs) = 2
                /\ Len(calls'[c].resps) = 2
                /\ Requests(MaxCalls)' = Requests(MaxCalls)
                /\ calls'[c].value.count = Last(calls'[c]).ok.count
                /\ calls'[c].value.next = Last(calls'[c]).ok.next
                /\ calls'[c].value.previous = Last(calls'[c]).ok.previous
                /\ calls'[c].value.results = Last(calls'[c]).ok.results
      ]_vars

\* a listAll has completed: its first response counted two items, its second
\* request asked for two, the second response counted one, and the listing
\* returned is the one of the second response
C15_Witness ==
    \E c \in CallIds :
        /\ calls[c].op = "listAll" /\ calls[c].pc = "done"
        /\ calls[c].reqs = <<LimitRequest(1), LimitRequest(2)>>
        /\ calls[c].resps[1].ok.count = 2
        /\ calls[c].resps[2].ok.count = 1
        /\ calls[c].value.count = 1
        /\ calls[c].value.results = calls[c].resps[2].ok.results
        /\ Len(calls[c].value.results) = 1

----------------------------------------------------------------------------
(* C16 *)

\* call c is a listAll(false) that has completed its two transport calls, and no
\* listAll(true) has been called
OnlyUnstored(c) ==
    /\ calls[c].op = "listAll" /\ calls[c].pc = "done"
    /\ calls[c].reqs # <<>> /\ ~calls[c].args.cache
    /\ \A e \in CallIds : calls[e].op = "listAll" => ~calls[e].args.cache

\* C16: when the second transport call of a listAll(cache) succeeds, the
\* snapshot is the listing the call returns if cache is true; if cache is false
\* the step leaves the snapshot field as it was, and the instance is without a
\* snapshot unless another listAll(true) has completed.  After a listAll(false),
\* no listAll(true) having been called, the next listAll issues the limit=1
\* request and suspends, and the next list issues its request and suspends.
C16_ListAllStoresWhenAsked ==
    [][\A c \in CallIds :
          /\ ( /\ calls[c].op = "listAll" /\ calls[c].pc = "await2"
               /\ Resumes(c)
               /\ "ok" \in DOMAIN Last(calls'[c]) )
             => /\ calls'[c].pc = "done"
                /\ IF calls[c].args.cache
                       THEN _list' = calls'[c].value
                       ELSE /\ _list' = _list
                            /\ ~StoredByOther(c) => _list' = Undefined
          /\ \A d \in CallIds :
                /\ (OnlyUnstored(c) /\ Starts(d, "listAll"))
                   => /\ calls'[d].pc = "await"
                      /\ calls'[d].reqs = <<[query |-> [limit |-> <<"1">>]]>>
                /\ (OnlyUnstored(c) /\ Starts(d, "list"))
                   => /\ calls'[d].pc = "await"
                      /\ Len(calls'[d].reqs) = 1
      ]_vars

\* a listAll(false) has returned a listing of two items and there is no
\* snapshot; the listAll called next has issued its two requests
C16_Witness ==
    \E c \in CallIds, d \in CallIds :
        /\ d = c + 1
        /\ calls[c].op = "listAll" /\ calls[c].pc = "done" /\ ~calls[c].args.cache
        /\ Len(calls[c].reqs) = 2
        /\ Len(calls[c].value.results) = 2
        /\ _list = Undefined
        /\ calls[d].op = "listAll" /\ calls[d].pc = "await2"
        /\ Len(calls[d].reqs) = 2
        /\ calls[d].reqs[1] = LimitRequest(1)

----------------------------------------------------------------------------
(* C17 *)

\* C17: in every step taken while the snapshot is set, no list or listAll call
\* issues a transport request, whether the call starts in that step or was
\* suspended when the snapshot was set.
C17_SnapshotReadyTerminal ==
    [][_list # Undefined =>
          \A c \in CallIds :
              calls'[c].op \in {"list", "listAll"} => calls'[c].reqs = calls[c].reqs
      ]_vars

----------------------------------------------------------------------------
(* C18 *)

\* C18: when a resolve(id) or fetch(id) is called while id is not in the cache
\* and another resolve(id) or fetch(id) is suspended at its transport call, the
\* new call issues a request of its own, so the two have issued two; and when
\* the response to either arrives with the resource of that id, it is written
\* to the cache under id in that step, whatever the cache held, so that the
\* entry holds the response that arrived last.
C18_NoRequestDeduplication ==
    [][\A c \in CallIds, id \in Ids :
          /\ \A d \in CallIds \ {c} :
                ( /\ calls[c].op \in {"fetch", "resolve"}
                  /\ calls[c].pc = "await"
                  /\ calls[c].args.param = Num(id)
                  /\ id \notin DOMAIN cache
                  /\ (Starts(d, "fetch") \/ Starts(d, "resolve"))
                  /\ calls'[d].args.param = Num(id) )
                => /\ calls'[d].pc = "await"
                   /\ calls'[d].reqs = <<[path |-> Num(id)]>>
                   /\ calls'[c].reqs = calls[c].reqs
                   /\ Len(calls'[c].reqs) + Len(calls'[d].reqs) = 2
                   /\ Requests(MaxCalls)' = Requests(MaxCalls) + 1
          /\ ( /\ calls[c].op \in {"fetch", "resolve"}
               /\ calls[c].args.param = Num(id)
               /\ Resumes(c)
               /\ "ok" \in DOMAIN Last(calls'[c])
               /\ Last(calls'[c]).ok.id = id )
             => /\ calls'[c].value = Last(calls'[c]).ok
                /\ id \in DOMAIN cache'
                /\ cache'[id] = Last(calls'[c]).ok
      ]_vars

\* two resolve(id) calls have each issued a request and returned different
\* resources of that id; the response to the first call arrived last, after the
\* second call had written the entry, and the cache holds it
C18_Witness ==
    \E id \in Ids :
        /\ calls[1].op = "resolve" /\ calls[2].op = "resolve"
        /\ calls[1].args.param = Num(id) /\ calls[2].args.param = Num(id)
        /\ calls[1].pc = "done" /\ calls[2].pc = "done"
        /\ Len(calls[1].reqs) = 1 /\ Len(calls[2].reqs) = 1
        /\ calls[1].value.id = id /\ calls[2].value.id = id
        /\ calls[1].value # calls[2].value
        /\ cache[id] = calls[1].value

----------------------------------------------------------------------------
(* C19 *)

----------------------------------------------------------------------------
(* C20 *)

\* C20: on a NamedEndpoint, a resolve(name), the name in any letter case, called
\* while the lower-cased name is in the name map and its id in the cache,
\* returns the cached resource of that id in the step it is called in and
\* issues no transport request; called in any other state it issues one
\* request, addressed to the lower-cased name, issues none when it resumes, and
\* returns the resource the transport delivers.
C20_ResolveByName ==
    [][\A c \in CallIds, p \in Names :
          /\ ( /\ kind = "NamedEndpoint"
               /\ Starts(c, "resolve")
               /\ calls'[c].args.param = Str(p) )
             => LET key == toLowerCase(p)
                IN  IF key \in DOMAIN _nameMap /\ _nameMap[key] \in DOMAIN cache
                        THEN /\ calls'[c].pc = "done"
                             /\ calls'[c].value = cache[_nameMap[key]]
                             /\ calls'[c].reqs = <<>>
                             /\ Requests(MaxCalls)' = Requests(MaxCalls)
                        ELSE /\ calls'[c].pc = "await"
                             /\ calls'[c].reqs = <<[path |-> Str(key)]>>
                             /\ Requests(MaxCalls)' = Requests(MaxCalls) + 1
          /\ ( /\ kind = "NamedEndpoint"
               /\ calls[c].op = "resolve"
               /\ calls[c].args.param = Str(p)
               /\ Resumes(c) )
             => /\ calls'[c].reqs = calls[c].reqs
                /\ Requests(MaxCalls)' = Requests(MaxCalls)
                /\ "ok" \in DOMAIN Last(calls'[c])
                   => /\ calls'[c].pc = "done"
                      /\ calls'[c].value = Last(calls'[c]).ok
      ]_vars

\* a resolve by a name in upper case that was not in the name map has issued
\* one request, for the lower-cased name, and returned the resource delivered;
\* the resolve by the same name called next has returned it from the cache
C20_Witness ==
    \E c \in CallIds, d \in CallIds, p \in Names :
        /\ d = c + 1
        /\ kind = "NamedEndpoint"
        /\ p # toLowerCase(p)
        /\ calls[c].op = "resolve" /\ calls[c].pc = "done"
        /\ calls[c].args.param = Str(p)
        /\ calls[c].reqs = <<ResourceRequest(Str(toLowerCase(p)))>>
        /\ calls[c].value = Last(calls[c]).ok
        /\ calls[d].op = "resolve" /\ calls[d].pc = "done"
        /\ calls[d].args.param = Str(p)
        /\ calls[d].reqs = <<>>
        /\ calls[d].value = calls[c].value

====
